---- MODULE Spec2Model ----
(***************************************************************************)
(* BounceTales: the level model (level_manager.py), the ball physics body  *)
(* (player.py) and the per-frame driver (main.py, Game.update).            *)
(*                                                                         *)
(* Numbers.  Level geometry is kept in whole pixels, exactly as the level  *)
(* literals are written.  The ball's x, y, vel_x and vel_y are Python      *)
(* floats; they are kept here in hundredths of a pixel (Px converts), and  *)
(* a product with a decimal factor (friction, bounce) is cut to a whole    *)
(* hundredth.  Factors are written in percent (0.9 is 90).                 *)
(*                                                                         *)
(* References.  load_level stores the blueprint's own list objects in      *)
(* self.platforms / self.enemies / self.goal, so these fields are kept as  *)
(* references (the number of the level whose list they point to, NoRef for *)
(* the objects made in __init__) and update writes through them.           *)
(***************************************************************************)
EXTENDS Integers, Sequences, FiniteSets, TLC

VARIABLES
    level_manager,  \* the LevelManager object
    player,         \* the PlayerBall object (the ball handed to update)
    state,          \* Game.state
    current_level,  \* Game.current_level
    score,          \* Game.score
    lives,          \* Game.lives
    call,           \* the last operation called, with its argument
    start_pos,      \* what the last load_level returned (<<>> is None)
    in_water,       \* the immersion flag of the last frame
    result,         \* what the last LevelManager.update returned
    saved,          \* customization.json: the keys saved and their values
    nsteps          \* calls made so far (bounds the exploration)

vars == <<level_manager, player, state, current_level, score, lives,
          call, start_pos, in_water, result, saved, nsteps>>

----------------------------------------------------------------------------
(* Representation helpers *)

Px(n) == 100 * n

Abs(v) == IF v < 0 THEN -v ELSE v

Min(a, b) == IF a < b THEN a ELSE b

Max(a, b) == IF a > b THEN a ELSE b

\* dict.get(key, default)
Get(d, key, default) == IF key \in DOMAIN d THEN d[key] ELSE default

\* d[key] = value on a dict that may not have the key yet
Put(d, key, value) == (key :> value) @@ d

\* v * (pct/100), cut to a whole hundredth of a pixel
Scaled(v, pct) == IF v * pct >= 0 THEN (v * pct) \div 100 ELSE -((-(v * pct)) \div 100)

NoRef == 0

----------------------------------------------------------------------------
(* level_manager.py: the three level blueprints (colors are cosmetic and   *)
(* are left out)                                                           *)

Level1 ==
    [platforms |-> <<
        [x |-> 0,   y |-> 500, width |-> 300, height |-> 20],
        [x |-> 400, y |-> 500, width |-> 400, height |-> 20],
        [x |-> 200, y |-> 400, width |-> 200, height |-> 20],
        [x |-> 500, y |-> 300, width |-> 200, height |-> 20],
        [x |-> 100, y |-> 200, width |-> 200, height |-> 20] >>,
     enemies |-> << >>,
     goal |-> [x |-> 150, y |-> 150, width |-> 50, height |-> 50],
     start_pos |-> <<100, 50>>]

Level2 ==
    [platforms |-> <<
        [x |-> 0,   y |-> 550, width |-> 800, height |-> 50],
        [x |-> 100, y |-> 450, width |-> 100, height |-> 20],
        [x |-> 300, y |-> 400, width |-> 100, height |-> 20],
        [x |-> 500, y |-> 350, width |-> 100, height |-> 20],
        [x |-> 0,   y |-> 500, width |-> 800, height |-> 50, type |-> "water"],
        [x |-> 650, y |-> 300, width |-> 100, height |-> 20] >>,
     enemies |-> <<
        [x |-> 200, y |-> 430, width |-> 30, height |-> 20, patrol |-> <<150, 250>>] >>,
     goal |-> [x |-> 675, y |-> 250, width |-> 50, height |-> 50],
     start_pos |-> <<150, 400>>]

Level3 ==
    [platforms |-> <<
        [x |-> 0,   y |-> 550, width |-> 200, height |-> 50],
        [x |-> 300, y |-> 550, width |-> 200, height |-> 50],
        [x |-> 600, y |-> 550, width |-> 200, height |-> 50],
        [x |-> 100, y |-> 450, width |-> 100, height |-> 20],
        [x |-> 300, y |-> 400, width |-> 100, height |-> 20],
        [x |-> 500, y |-> 350, width |-> 100, height |-> 20],
        [x |-> 200, y |-> 300, width |-> 100, height |-> 20, type |-> "moving",
         start_x |-> 200, end_x |-> 400, speed |-> 1],
        [x |-> 650, y |-> 200, width |-> 100, height |-> 20] >>,
     enemies |-> <<
        [x |-> 400, y |-> 530, width |-> 30, height |-> 20, patrol |-> <<350, 450>>],
        [x |-> 600, y |-> 400, width |-> 30, height |-> 20, patrol |-> <<550, 650>>] >>,
     goal |-> [x |-> 675, y |-> 150, width |-> 50, height |-> 50],
     start_pos |-> <<100, 400>>]

\* LevelManager.load_levels: self.levels as first built
load_levels == <<Level1, Level2, Level3>>

\* LevelManager.__init__
NewLevelManager ==
    [levels |-> load_levels, current_level |-> 0,
     platforms |-> NoRef, enemies |-> NoRef, goal |-> NoRef]

\* the objects the reference fields point to
Platforms(lm) == IF lm.platforms = NoRef THEN << >> ELSE lm.levels[lm.platforms].platforms

Enemies(lm) == IF lm.enemies = NoRef THEN << >> ELSE lm.levels[lm.enemies].enemies

HasGoal(lm) == lm.goal # NoRef

Goal(lm) == lm.levels[lm.goal].goal

----------------------------------------------------------------------------
(* level_manager.py: LevelManager *)

\* load_level that selects the level number before looking it up
load_level_SelectsFirst(lm, level_num) ==
    IF level_num \in DOMAIN lm.levels
    THEN [lm  |-> [lm EXCEPT !.current_level = level_num,
                             !.platforms = level_num,
                             !.enemies = level_num,
                             !.goal = level_num],
          ret |-> lm.levels[level_num].start_pos]
    ELSE [lm |-> [lm EXCEPT !.current_level = level_num], ret |-> << >>]

\* load_level(level_num): the new object and the value returned
load_level(lm, level_num) ==
    IF level_num \in DOMAIN lm.levels
    THEN [lm  |-> [lm EXCEPT !.current_level = level_num,
                             !.platforms = level_num,
                             !.enemies = level_num,
                             !.goal = level_num],
          ret |-> lm.levels[level_num].start_pos]
    ELSE [lm |-> lm, ret |-> << >>]

IsMoving(platform) == "type" \in DOMAIN platform /\ platform.type = "moving"

IsWater(platform) == "type" \in DOMAIN platform /\ platform.type = "water"

\* the platform loop without the snap to the bound
UpdatePlatform_NoSnap(platform) ==
    IF ~IsMoving(platform) THEN platform
    ELSE LET moved == [platform EXCEPT !.x = platform.x + Get(platform, "speed", 1)]
         IN  IF moved.x > Get(moved, "end_x", moved.x + 100)
             THEN [moved EXCEPT !.speed = -moved.speed]
             ELSE IF moved.x < Get(moved, "start_x", moved.x - 100)
             THEN [moved EXCEPT !.speed = -moved.speed]
             ELSE moved

\* the platform loop reversing only at the far bound
UpdatePlatform_NoReverse(platform) ==
    IF ~IsMoving(platform) THEN platform
    ELSE LET moved == [platform EXCEPT !.x = platform.x + Get(platform, "speed", 1)]
         IN  IF moved.x > Get(moved, "end_x", moved.x + 100)
             THEN [moved EXCEPT !.x = moved.end_x]
             ELSE IF moved.x < Get(moved, "start_x", moved.x - 100)
             THEN [moved EXCEPT !.x = moved.start_x, !.speed = -moved.speed]
             ELSE moved

\* update, the body of the loop over platforms
UpdatePlatform(platform) ==
    IF ~IsMoving(platform) THEN platform
    ELSE LET moved == [platform EXCEPT !.x = platform.x + Get(platform, "speed", 1)]
         IN  IF moved.x > Get(moved, "end_x", moved.x + 100)
             THEN [moved EXCEPT !.x = moved.end_x, !.speed = -moved.speed]
             ELSE IF moved.x < Get(moved, "start_x", moved.x - 100)
             THEN [moved EXCEPT !.x = moved.start_x, !.speed = -moved.speed]
             ELSE moved

\* the enemy loop without the snap to the patrol bound
UpdateEnemy_NoSnap(enemy) ==
    IF "patrol" \notin DOMAIN enemy THEN enemy
    ELSE LET moved == [enemy EXCEPT !.x = enemy.x + Get(enemy, "speed", 1)]
         IN  IF moved.x > moved.patrol[2]
             THEN Put(moved, "speed", -1)
             ELSE IF moved.x < moved.patrol[1]
             THEN Put(moved, "speed", 1)
             ELSE moved

\* the enemy loop body that snaps to the patrol bound and keeps the speed
UpdateEnemy_NoReverse(enemy) ==
    IF "patrol" \in DOMAIN enemy
    THEN LET speed == Get(enemy, "speed", 1)
             x == enemy.x + speed
         IN  IF x > enemy.patrol[2]
             THEN Put([enemy EXCEPT !.x = enemy.patrol[2]], "speed", speed)
             ELSE IF x < enemy.patrol[1]
             THEN Put([enemy EXCEPT !.x = enemy.patrol[1]], "speed", speed)
             ELSE [enemy EXCEPT !.x = x]
    ELSE enemy

\* update, the body of the loop over enemies
UpdateEnemy(enemy) ==
    IF "patrol" \notin DOMAIN enemy THEN enemy
    ELSE LET moved == [enemy EXCEPT !.x = enemy.x + Get(enemy, "speed", 1)]
         IN  IF moved.x > moved.patrol[2]
             THEN Put([moved EXCEPT !.x = moved.patrol[2]], "speed", -1)
             ELSE IF moved.x < moved.patrol[1]
             THEN Put([moved EXCEPT !.x = moved.patrol[1]], "speed", 1)
             ELSE moved

\* update, the two loops: the lists are changed in place, so the change lands
\* in the level of self.levels that the lists belong to
UpdateDynamics(lm) ==
    LET afterPlatforms ==
            IF lm.platforms = NoRef THEN lm.levels
            ELSE [lm.levels EXCEPT ![lm.platforms].platforms =
                     [i \in DOMAIN @ |-> UpdatePlatform(@[i])]]
        afterEnemies ==
            IF lm.enemies = NoRef THEN afterPlatforms
            ELSE [afterPlatforms EXCEPT ![lm.enemies].enemies =
                     [i \in DOMAIN @ |-> UpdateEnemy(@[i])]]
    IN  [lm EXCEPT !.levels = afterEnemies]

\* check_goal_collision without the test that passes a ball beside or on
\* the goal
check_goal_collision_CornerOnly(lm, ball) ==
    IF ~HasGoal(lm) THEN FALSE
    ELSE LET goal == Goal(lm)
             size == Px(ball.customization.size)
             dx == Abs(ball.x - (Px(goal.x) + Px(goal.width) \div 2))
             dy == Abs(ball.y - (Px(goal.y) + Px(goal.height) \div 2))
         IN  IF dx > Px(goal.width) \div 2 + size THEN FALSE
             ELSE IF dy > Px(goal.height) \div 2 + size THEN FALSE
             ELSE (dx - Px(goal.width) \div 2) * (dx - Px(goal.width) \div 2)
                  + (dy - Px(goal.height) \div 2) * (dy - Px(goal.height) \div 2)
                  <= size * size

\* check_goal_collision taking the goal's center as (x + width) / 2,
\* (y + height) / 2
check_goal_collision_HalfSum(lm, ball) ==
    IF ~HasGoal(lm) THEN FALSE
    ELSE LET goal == Goal(lm)
             size == Px(ball.customization.size)
             dx == Abs(ball.x - (Px(goal.x) + Px(goal.width)) \div 2)
             dy == Abs(ball.y - (Px(goal.y) + Px(goal.height)) \div 2)
         IN  IF dx > Px(goal.width) \div 2 + size THEN FALSE
             ELSE IF dy > Px(goal.height) \div 2 + size THEN FALSE
             ELSE IF dx <= Px(goal.width) \div 2 \/ dy <= Px(goal.height) \div 2 THEN TRUE
             ELSE (dx - Px(goal.width) \div 2) * (dx - Px(goal.width) \div 2)
                  + (dy - Px(goal.height) \div 2) * (dy - Px(goal.height) \div 2)
                  <= size * size

\* check_goal_collision
check_goal_collision(lm, ball) ==
    IF ~HasGoal(lm) THEN FALSE
    ELSE LET goal == Goal(lm)
             size == Px(ball.customization.size)
             dx == Abs(ball.x - (Px(goal.x) + Px(goal.width) \div 2))
             dy == Abs(ball.y - (Px(goal.y) + Px(goal.height) \div 2))
         IN  IF dx > Px(goal.width) \div 2 + size THEN FALSE
             ELSE IF dy > Px(goal.height) \div 2 + size THEN FALSE
             ELSE IF dx <= Px(goal.width) \div 2 \/ dy <= Px(goal.height) \div 2 THEN TRUE
             ELSE (dx - Px(goal.width) \div 2) * (dx - Px(goal.width) \div 2)
                  + (dy - Px(goal.height) \div 2) * (dy - Px(goal.height) \div 2)
                  <= size * size

\* the enemy test without the corner distance
EnemyTouches_BoxOnly(enemy, ball) ==
    LET size == Px(ball.customization.size)
        dx == Abs(ball.x - (Px(enemy.x) + Px(enemy.width) \div 2))
        dy == Abs(ball.y - (Px(enemy.y) + Px(enemy.height) \div 2))
    IN  IF dx > Px(enemy.width) \div 2 + size THEN FALSE
        ELSE IF dy > Px(enemy.height) \div 2 + size THEN FALSE
        ELSE TRUE

\* check_enemy_collision, the body of the loop: TRUE when this enemy returns True
EnemyTouches(enemy, ball) ==
    LET size == Px(ball.customization.size)
        dx == Abs(ball.x - (Px(enemy.x) + Px(enemy.width) \div 2))
        dy == Abs(ball.y - (Px(enemy.y) + Px(enemy.height) \div 2))
    IN  IF dx > Px(enemy.width) \div 2 + size THEN FALSE
        ELSE IF dy > Px(enemy.height) \div 2 + size THEN FALSE
        ELSE IF dx <= Px(enemy.width) \div 2 \/ dy <= Px(enemy.height) \div 2 THEN TRUE
        ELSE (dx - Px(enemy.width) \div 2) * (dx - Px(enemy.width) \div 2)
             + (dy - Px(enemy.height) \div 2) * (dy - Px(enemy.height) \div 2)
             <= size * size

\* check_enemy_collision
check_enemy_collision(lm, ball) ==
    \E i \in DOMAIN Enemies(lm) : EnemyTouches(Enemies(lm)[i], ball)

\* update testing the enemies before the goal
LevelManager_update_EnemyFirst(lm, ball) ==
    LET moved == UpdateDynamics(lm)
    IN  [lm     |-> moved,
         player |-> ball,
         ret    |-> IF check_enemy_collision(moved, ball) THEN "player_dead"
                    ELSE IF check_goal_collision(moved, ball) THEN "level_complete"
                    ELSE "None"]

\* update that pushes the ball one pixel to the right
LevelManager_update_CarriesBall(lm, ball) ==
    LET moved == UpdateDynamics(lm)
    IN  [lm     |-> moved,
         player |-> [ball EXCEPT !.x = @ + Px(1)],
         ret    |-> IF check_goal_collision(moved, ball) THEN "level_complete"
                    ELSE IF check_enemy_collision(moved, ball) THEN "player_dead"
                    ELSE "None"]

\* update(player): the new object, the ball as update leaves it, the value returned
LevelManager_update(lm, ball) ==
    LET moved == UpdateDynamics(lm)
    IN  [lm     |-> moved,
         player |-> ball,
         ret    |-> IF check_goal_collision(moved, ball) THEN "level_complete"
                    ELSE IF check_enemy_collision(moved, ball) THEN "player_dead"
                    ELSE "None"]

\* get_water_platforms
get_water_platforms(lm) == SelectSeq(Platforms(lm), IsWater)

----------------------------------------------------------------------------
(* config.py is not among the sources: the screen is the 800 x 600 area    *)
(* the level literals fill, and gravity is taken as 0.5 pixel per frame    *)

SCREEN_WIDTH == 800

SCREEN_HEIGHT == 600

GRAVITY == 50

----------------------------------------------------------------------------
(* player.py: PlayerBall *)

\* self.max_vel_x (pixels per frame)
max_vel_x == 12

\* self.acceleration: 0.8 pixel per frame, in hundredths
acceleration == 80

\* self.friction: 0.9, in percent
friction == 90

\* the customization defaults of __init__ (size in pixels, bounce_factor in percent)
DefaultCustomization == [size |-> 20, bounce_factor |-> 70]

\* load_customization: self.customization.update(saved); nothing is clamped
load_customization(customization, file) ==
    [k \in DOMAIN customization |-> IF k \in DOMAIN file THEN file[k] ELSE customization[k]]

\* PlayerBall(x, y), x and y in pixels, with customization.json holding file
PlayerBall(x, y, file) ==
    [x |-> Px(x), y |-> Px(y), vel_x |-> 0, vel_y |-> 0, on_ground |-> FALSE,
     customization |-> load_customization(DefaultCustomization, file)]

\* move_left without the speed guard
move_left_NoLimit(ball) ==
    [ball EXCEPT !.vel_x = @ - acceleration]

\* move_left guarded in its own direction only: it still brakes a ball that
\* goes right at the cap
move_left_BrakesAtCap(ball) ==
    IF ball.vel_x > -Px(max_vel_x)
    THEN [ball EXCEPT !.vel_x = @ - acceleration]
    ELSE ball

\* move_left (the definition in force, the second one)
move_left(ball) ==
    IF Abs(ball.vel_x) < Px(max_vel_x)
    THEN [ball EXCEPT !.vel_x = @ - acceleration]
    ELSE ball

\* move_right (the definition in force, the second one): the body of a former
\* jump follows the speed guard inside the same function
move_right(ball) ==
    LET pushed == IF Abs(ball.vel_x) < Px(max_vel_x)
                  THEN [ball EXCEPT !.vel_x = @ + acceleration]
                  ELSE ball
    IN  IF pushed.on_ground
        THEN [pushed EXCEPT !.vel_y = -Px(12), !.on_ground = FALSE]
        ELSE pushed

\* jump without the ground test
jump_Always(ball) ==
    [ball EXCEPT !.vel_y = -Px(15), !.on_ground = FALSE]

\* jump
jump(ball) ==
    IF ball.on_ground
    THEN [ball EXCEPT !.vel_y = -Px(15), !.on_ground = FALSE]
    ELSE ball

\* check_collision: distance <= radius, the squares taken only when both
\* offsets are within the radius (the sum of squares is larger otherwise)
Collides(ball, platform) ==
    LET radius == Px(ball.customization.size)
        closest_x == Max(Px(platform.x), Min(ball.x, Px(platform.x) + Px(platform.width)))
        closest_y == Max(Px(platform.y), Min(ball.y, Px(platform.y) + Px(platform.height)))
        ox == Abs(ball.x - closest_x)
        oy == Abs(ball.y - closest_y)
    IN  /\ radius >= 0
        /\ ox <= radius
        /\ oy <= radius
        /\ ox * ox + oy * oy <= radius * radius

\* the side taken from the half of the platform the centre is in
Side_NearestEdge(ball, platform) ==
    LET closest_y == Max(Px(platform.y), Min(ball.y, Px(platform.y) + Px(platform.height)))
    IN  IF closest_y = Px(platform.y) THEN "top"
        ELSE IF closest_y = Px(platform.y) + Px(platform.height) THEN "bottom"
        ELSE IF 2 * ball.x <= 2 * Px(platform.x) + Px(platform.width) THEN "left"
        ELSE "right"

\* check_collision: the side the collision is resolved on
Side(ball, platform) ==
    LET closest_x == Max(Px(platform.x), Min(ball.x, Px(platform.x) + Px(platform.width)))
        closest_y == Max(Px(platform.y), Min(ball.y, Px(platform.y) + Px(platform.height)))
    IN  IF closest_y = Px(platform.y) THEN "top"
        ELSE IF closest_y = Px(platform.y) + Px(platform.height) THEN "bottom"
        ELSE IF closest_x = Px(platform.x) THEN "left"
        ELSE "right"

\* check_collision whose top branch turns the ball round at full speed
check_collision_NoDamping(ball, platform) ==
    LET radius == Px(ball.customization.size)
        side == Side(ball, platform)
    IN  IF ~Collides(ball, platform) THEN ball
        ELSE IF side = "top"
        THEN [ball EXCEPT !.y = Px(platform.y) - radius,
                          !.vel_y = -ball.vel_y,
                          !.on_ground = TRUE]
        ELSE IF side = "bottom"
        THEN [ball EXCEPT !.y = Px(platform.y) + Px(platform.height) + radius,
                          !.vel_y = Scaled(-ball.vel_y, 50)]
        ELSE IF side = "left"
        THEN [ball EXCEPT !.x = Px(platform.x) - radius,
                          !.vel_x = Scaled(ball.vel_x, -50)]
        ELSE [ball EXCEPT !.x = Px(platform.x) + Px(platform.width) + radius,
                          !.vel_x = Scaled(ball.vel_x, -50)]

\* check_collision whose last branch puts the ball's center on the right edge
check_collision_OnEdge(ball, platform) ==
    LET radius == Px(ball.customization.size)
        side == Side(ball, platform)
    IN  IF ~Collides(ball, platform) THEN ball
        ELSE IF side = "top"
        THEN [ball EXCEPT !.y = Px(platform.y) - radius,
                          !.vel_y = Scaled(-ball.vel_y, ball.customization.bounce_factor),
                          !.on_ground = TRUE]
        ELSE IF side = "bottom"
        THEN [ball EXCEPT !.y = Px(platform.y) + Px(platform.height) + radius,
                          !.vel_y = Scaled(-ball.vel_y, 50)]
        ELSE IF side = "left"
        THEN [ball EXCEPT !.x = Px(platform.x) - radius,
                          !.vel_x = Scaled(ball.vel_x, -50)]
        ELSE [ball EXCEPT !.x = Px(platform.x) + Px(platform.width),
                          !.vel_x = Scaled(ball.vel_x, -50)]

\* check_collision(platform)
check_collision(ball, platform) ==
    LET radius == Px(ball.customization.size)
        side == Side(ball, platform)
    IN  IF ~Collides(ball, platform) THEN ball
        ELSE IF side = "top"
        THEN [ball EXCEPT !.y = Px(platform.y) - radius,
                          !.vel_y = Scaled(-ball.vel_y, ball.customization.bounce_factor),
                          !.on_ground = TRUE]
        ELSE IF side = "bottom"
        THEN [ball EXCEPT !.y = Px(platform.y) + Px(platform.height) + radius,
                          !.vel_y = Scaled(-ball.vel_y, 50)]
        ELSE IF side = "left"
        THEN [ball EXCEPT !.x = Px(platform.x) - radius,
                          !.vel_x = Scaled(ball.vel_x, -50)]
        ELSE [ball EXCEPT !.x = Px(platform.x) + Px(platform.width) + radius,
                          !.vel_x = Scaled(ball.vel_x, -50)]

\* the platform loop leaving at the first platform that moves the ball
RECURSIVE CollideAll_EarlyExit(_, _, _)
CollideAll_EarlyExit(ball, platforms, i) ==
    IF i > Len(platforms) THEN ball
    ELSE IF Collides(ball, platforms[i]) THEN check_collision(ball, platforms[i])
    ELSE CollideAll_EarlyExit(ball, platforms, i + 1)

\* update: for platform in platforms: self.check_collision(platform)
RECURSIVE CollideAll(_, _, _)
CollideAll(ball, platforms, i) ==
    IF i > Len(platforms) THEN ball
    ELSE CollideAll(check_collision(ball, platforms[i]), platforms, i + 1)

\* update: the screen boundaries
ScreenBounds(ball) ==
    LET radius == Px(ball.customization.size)
        h == IF ball.x < radius
             THEN [ball EXCEPT !.x = radius, !.vel_x = Scaled(@, -50)]
             ELSE IF ball.x > Px(SCREEN_WIDTH) - radius
             THEN [ball EXCEPT !.x = Px(SCREEN_WIDTH) - radius, !.vel_x = Scaled(@, -50)]
             ELSE ball
    IN  IF h.y < radius
        THEN [h EXCEPT !.y = radius, !.vel_y = 0]
        ELSE IF h.y > Px(SCREEN_HEIGHT) - radius
        THEN [h EXCEPT !.y = Px(SCREEN_HEIGHT) - radius,
                       !.vel_y = Scaled(-h.vel_y, h.customization.bounce_factor),
                       !.on_ground = TRUE]
        ELSE h

\* update: gravity, friction, the move, and on_ground cleared before the
\* platforms are looked at
Moved(ball, inWater) ==
    LET gravity == IF inWater THEN Scaled(GRAVITY, 50) ELSE GRAVITY
        fallen == [ball EXCEPT !.vel_y = @ + gravity]
        slowed == IF fallen.on_ground
                  THEN [fallen EXCEPT !.vel_x = Scaled(@, friction)]
                  ELSE fallen
    IN  [slowed EXCEPT !.x = @ + slowed.vel_x, !.y = @ + slowed.vel_y,
                       !.on_ground = FALSE]

\* update that leaves on_ground as the previous frame set it
PlayerBall_update_KeepGround(ball, platforms, inWater) ==
    ScreenBounds(CollideAll([Moved(ball, inWater) EXCEPT !.on_ground = ball.on_ground],
                            platforms, 1))

\* update(platforms, in_water)
PlayerBall_update(ball, platforms, inWater) ==
    ScreenBounds(CollideAll(Moved(ball, inWater), platforms, 1))

----------------------------------------------------------------------------
(* player.py: the customization mutators the customize screen calls *)

\* set_size storing the size it is given
set_size_NoClamp(ball, size) ==
    [ball EXCEPT !.customization.size = size]

\* set_size(size): clamp, then save_customization writes the whole dict
set_size(ball, size) ==
    [ball EXCEPT !.customization.size = Max(10, Min(50, size))]

\* set_bounce(factor), in percent
set_bounce(ball, factor) ==
    [ball EXCEPT !.customization.bounce_factor = Max(10, Min(100, factor))]

----------------------------------------------------------------------------
(* main.py: Game.  A game g is the record of the Game object's fields,     *)
(* with customization.json (saved) beside them                             *)

\* init_game(reset_lives)
init_game(g, reset_lives) ==
    LET reset == IF reset_lives
                 THEN [g EXCEPT !.lives = 3, !.score = 0, !.current_level = 1]
                 ELSE g
        loaded == load_level(reset.level_manager, reset.current_level)
    IN  IF loaded.ret # << >>
        THEN [reset EXCEPT !.level_manager = loaded.lm,
                           !.player = PlayerBall(loaded.ret[1], loaded.ret[2], reset.saved)]
        ELSE [reset EXCEPT !.level_manager = loaded.lm]

\* next_level without the test against max_level
next_level_NoLimit(g) ==
    [g |-> init_game([g EXCEPT !.current_level = @ + 1], FALSE), ret |-> TRUE]

\* next_level: the game and the value returned
next_level(g) ==
    IF g.current_level < 3
    THEN [g |-> init_game([g EXCEPT !.current_level = @ + 1], FALSE), ret |-> TRUE]
    ELSE [g |-> g, ret |-> FALSE]

\* the water test with the top and bottom edges left out
InWaterOf_Strict(ball, platform) ==
    /\ Px(platform.x) <= ball.x
    /\ ball.x <= Px(platform.x) + Px(platform.width)
    /\ Px(platform.y) < ball.y + Px(ball.customization.size)
    /\ ball.y + Px(ball.customization.size) < Px(platform.y) + Px(platform.height)

\* update: the water test of one platform
InWaterOf(ball, platform) ==
    /\ Px(platform.x) <= ball.x
    /\ ball.x <= Px(platform.x) + Px(platform.width)
    /\ Px(platform.y) <= ball.y + Px(ball.customization.size)
    /\ ball.y + Px(ball.customization.size) <= Px(platform.y) + Px(platform.height)

\* update: the loop over get_water_platforms() that sets in_water
Immersed(ball, lm) ==
    \E i \in DOMAIN get_water_platforms(lm) : InWaterOf(ball, get_water_platforms(lm)[i])

\* a frame that steps the level before the ball
FrameSteps_LevelFirst(lm, ball) ==
    LET inWater == Immersed(ball, lm)
        stepped == LevelManager_update(lm, ball)
    IN  [in_water |-> inWater,
         player   |-> PlayerBall_update(stepped.player, Platforms(stepped.lm), inWater),
         lm       |-> stepped.lm,
         ret      |-> stepped.ret]

\* update: immersion flag, player.update, level_manager.update
FrameSteps(lm, ball) ==
    LET inWater == Immersed(ball, lm)
        integrated == PlayerBall_update(ball, Platforms(lm), inWater)
        stepped == LevelManager_update(lm, integrated)
    IN  [in_water |-> inWater, player |-> stepped.player,
         lm |-> stepped.lm, ret |-> stepped.ret]

\* the frame's result applied with the ball left in play after a death
ApplyResult_NoRestart(g, frame) ==
    LET played == [g EXCEPT !.level_manager = frame.lm, !.player = frame.player]
    IN  IF frame.ret = "level_complete"
        THEN LET scored == [played EXCEPT !.score = @ + 100 * played.current_level]
                 advanced == next_level(scored)
             IN  IF ~advanced.ret
                 THEN [advanced.g EXCEPT !.state = "GAME_OVER"]
                 ELSE advanced.g
        ELSE IF frame.ret = "player_dead" \/ played.player.y > Px(SCREEN_HEIGHT + 100)
        THEN LET hurt == [played EXCEPT !.lives = @ - 1]
             IN  IF hurt.lives <= 0
                 THEN [hurt EXCEPT !.state = "GAME_OVER"]
                 ELSE hurt
        ELSE played

\* the frame's result applied with no test of the ball's height
ApplyResult_DeadOnly(g, frame) ==
    LET played == [g EXCEPT !.level_manager = frame.lm, !.player = frame.player]
    IN  IF frame.ret = "level_complete"
        THEN LET scored == [played EXCEPT !.score = @ + 100 * played.current_level]
                 advanced == next_level(scored)
             IN  IF ~advanced.ret
                 THEN [advanced.g EXCEPT !.state = "GAME_OVER"]
                 ELSE advanced.g
        ELSE IF frame.ret = "player_dead"
        THEN LET hurt == [played EXCEPT !.lives = @ - 1]
             IN  IF hurt.lives <= 0
                 THEN [hurt EXCEPT !.state = "GAME_OVER"]
                 ELSE init_game(hurt, FALSE)
        ELSE played

\* update: what the frame's result does to the game
ApplyResult(g, frame) ==
    LET played == [g EXCEPT !.level_manager = frame.lm, !.player = frame.player]
    IN  IF frame.ret = "level_complete"
        THEN LET scored == [played EXCEPT !.score = @ + 100 * played.current_level]
                 advanced == next_level(scored)
             IN  IF ~advanced.ret
                 THEN [advanced.g EXCEPT !.state = "GAME_OVER"]
                 ELSE advanced.g
        ELSE IF frame.ret = "player_dead" \/ played.player.y > Px(SCREEN_HEIGHT + 100)
        THEN LET hurt == [played EXCEPT !.lives = @ - 1]
             IN  IF hurt.lives <= 0
                 THEN [hurt EXCEPT !.state = "GAME_OVER"]
                 ELSE init_game(hurt, FALSE)
        ELSE played

\* handle_menu_events, a KEYDOWN of key
handle_menu_events(g, key) ==
    IF key = "K_1" THEN [init_game(g, TRUE) EXCEPT !.state = "GAME_PLAY"]
    ELSE IF key = "K_2" THEN [g EXCEPT !.state = "LEVEL_SELECT"]
    ELSE IF key = "K_3" THEN [g EXCEPT !.state = "CUSTOMIZE"]
    ELSE g

\* the mutators end with save_customization
Saving(g, ball) == [g EXCEPT !.player = ball, !.saved = ball.customization]

\* handle_customize_events, a KEYDOWN of key
handle_customize_events(g, key) ==
    IF key = "K_ESCAPE" THEN [g EXCEPT !.state = "MENU"]
    ELSE IF key = "K_PLUS"
    THEN Saving(g, set_size(g.player, g.player.customization.size + 1))
    ELSE IF key = "K_MINUS"
    THEN Saving(g, set_size(g.player, g.player.customization.size - 1))
    ELSE IF key = "K_LEFTBRACKET"
    THEN Saving(g, set_bounce(g.player, Max(10, g.player.customization.bounce_factor - 10)))
    ELSE IF key = "K_RIGHTBRACKET"
    THEN Saving(g, set_bounce(g.player, Min(100, g.player.customization.bounce_factor + 10)))
    ELSE g

\* handle_level_select_events, a KEYDOWN of key (a click on a level button
\* does what the level's digit key does)
handle_level_select_events(g, key) ==
    IF key = "K_ESCAPE" THEN [g EXCEPT !.state = "MENU"]
    ELSE IF key \in {"K_1", "K_2", "K_3"}
    THEN LET level_num == IF key = "K_1" THEN 1 ELSE IF key = "K_2" THEN 2 ELSE 3
         IN  [init_game([g EXCEPT !.current_level = level_num], FALSE)
                 EXCEPT !.state = "GAME_PLAY"]
    ELSE g

\* handle_game_play_events: an event (a KEYDOWN of key, or "other") with
\* the set of keys held down
handle_game_play_events(g, key, held) ==
    LET keyed == IF key = "K_ESCAPE" THEN [g EXCEPT !.state = "MENU"]
                 ELSE IF key = "K_r" THEN init_game(g, FALSE)
                 ELSE g
        left == IF "K_LEFT" \in held THEN move_left(keyed.player) ELSE keyed.player
        right == IF "K_RIGHT" \in held THEN move_right(left) ELSE left
        up == IF "K_UP" \in held THEN jump(right) ELSE right
    IN  [keyed EXCEPT !.player = up]

\* handle_game_over_events, a KEYDOWN of key
handle_game_over_events(g, key) ==
    IF key = "K_RETURN" THEN [g EXCEPT !.state = "MENU"] ELSE g

----------------------------------------------------------------------------
(* Bounds of the exploration *)

\* calls explored from the newly built level model
MaxSteps == 11

\* update calls in one run of consecutive frames (the game loop calls
\* update once per frame)
BurstLen == 50

\* calls explored when the ball handed to update varies
MaxOutcomeSteps == 4

\* customization.json absent or unreadable: no key is saved
NoFile == [k \in {} |-> 0]

\* a ball of a given radius at a given pixel
BallAt(x, y, size) == PlayerBall(x, y, [size |-> size])

\* a ball that touches no goal and no enemy of any level
FarBall == BallAt(100, 50, 20)

\* balls handed to update: away from everything, on a goal, on an enemy,
\* at a goal's corner (inside and outside the corner distance), and a ball
\* large enough to reach a goal and an enemy at once (load_customization
\* takes any saved size)
BallSamples ==
    { FarBall, BallAt(150, 150, 20), BallAt(700, 175, 20),
      BallAt(700, 230, 20), BallAt(215, 440, 20), BallAt(140, 140, 20),
      BallAt(132, 132, 20), BallAt(650, 300, 150) }

\* a ball at an enemy's current position
BallsAtEnemies(lm) ==
    { BallAt(Enemies(lm)[i].x + d, Enemies(lm)[i].y, 10) :
        i \in DOMAIN Enemies(lm), d \in {0, 1} }

----------------------------------------------------------------------------
(* The level model driven by any caller: load_level and update in any     *)
(* order                                                                   *)

\* n consecutive update(ball) calls: the result of the last one (each call
\* is evaluated once, on the value the call before it left)
RECURSIVE UpdateTimes(_, _, _)
UpdateTimes(lm, ball, n) ==
    IF n <= 1 THEN LevelManager_update(lm, ball)
    ELSE CHOOSE last \in { UpdateTimes(next, ball, n - 1) :
                               next \in {LevelManager_update(lm, ball).lm} } : TRUE

GameIdle == UNCHANGED <<state, current_level, score, lives, in_water, saved>>

Init ==
    /\ level_manager = NewLevelManager
    /\ player = FarBall
    /\ state = "MENU"
    /\ current_level = 1
    /\ score = 0
    /\ lives = 3
    /\ call = [op |-> "__init__", arg |-> 0]
    /\ start_pos = << >>
    /\ in_water = FALSE
    /\ result = "None"
    /\ saved = NoFile
    /\ nsteps = 0

LoadLevel(level_num) ==
    \E r \in {load_level(level_manager, level_num)} :
        /\ level_manager' = r.lm
        /\ start_pos' = r.ret
        /\ call' = [op |-> "load_level", arg |-> level_num]
        /\ nsteps' = nsteps + 1
        /\ UNCHANGED <<player, result>>
        /\ GameIdle

Update(ball) ==
    \E r \in {LevelManager_update(level_manager, ball)} :
        /\ level_manager' = r.lm
        /\ player' = r.player
        /\ result' = r.ret
        /\ call' = [op |-> "update", arg |-> 1]
        /\ nsteps' = nsteps + 1
        /\ UNCHANGED start_pos
        /\ GameIdle

UpdateBurst(ball) ==
    \E r \in {UpdateTimes(level_manager, ball, BurstLen)} :
        /\ level_manager' = r.lm
        /\ player' = r.player
        /\ result' = r.ret
        /\ call' = [op |-> "update", arg |-> BurstLen]
        /\ nsteps' = nsteps + 1
        /\ UNCHANGED start_pos
        /\ GameIdle

Next ==
    \/ nsteps < MaxSteps /\ \E level_num \in 0..4 : LoadLevel(level_num)
    \/ nsteps < MaxSteps /\ Update(FarBall)
    \/ nsteps < MaxSteps /\ UpdateBurst(FarBall)

Spec == Init /\ [][Next]_vars

\* the same level model, the ball handed to update varying from call to call
OutcomeNext ==
    \/ nsteps < MaxOutcomeSteps /\ \E level_num \in 1..3 : LoadLevel(level_num)
    \/ nsteps < MaxOutcomeSteps
          /\ \E ball \in BallSamples \cup BallsAtEnemies(level_manager) : Update(ball)
    \/ nsteps < MaxOutcomeSteps /\ UpdateBurst(FarBall)

OutcomeSpec == Init /\ [][OutcomeNext]_vars

\* calls explored when the ball handed to update is on the goal
MaxGoalSteps == 3

\* balls of the smallest, the default and the largest size set_size stores,
\* centered at the goal's (x, y), on its edges, at its corners and inside it
BallsOnGoal(lm) ==
    { BallAt(Goal(lm).x + ox, Goal(lm).y + oy, size) :
        ox \in {0, 1, Goal(lm).width \div 2, Goal(lm).width},
        oy \in {0, Goal(lm).height \div 2, Goal(lm).height},
        size \in {10, 20, 50} }

\* the same level model, the ball handed to update on the goal of the
\* loaded level
GoalNext ==
    \/ nsteps < MaxGoalSteps /\ \E level_num \in 1..3 : LoadLevel(level_num)
    \/ nsteps < MaxGoalSteps /\ HasGoal(level_manager)
          /\ \E ball \in BallsOnGoal(level_manager) : Update(ball)
    \/ nsteps < MaxGoalSteps /\ UpdateBurst(FarBall)

GoalSpec == Init /\ [][GoalNext]_vars

----------------------------------------------------------------------------
(* The level model run without end: the game loop calls update once per    *)
(* frame for as long as the program runs.  A session plays level 2 or      *)
(* level 3 and loads level 1 or an undefined level in between               *)

\* load_level(level_num); level 2 is loaded while level 3 is as built and
\* level 3 while level 2 is as built
LiveLoad(level_num) ==
    /\ level_num = 2 => level_manager.levels[3] = Level3
    /\ level_num = 3 => level_manager.levels[2] = Level2
    /\ level_manager' = load_level(level_manager, level_num).lm
    /\ UNCHANGED <<player, result, nsteps, call, start_pos>>
    /\ GameIdle

\* update(player), the ball away from the goal and the enemies
LiveUpdate ==
    /\ \E r \in {LevelManager_update(level_manager, player)} :
          /\ level_manager' = r.lm
          /\ player' = r.player
          /\ result' = r.ret
    /\ UNCHANGED <<start_pos, nsteps, call>>
    /\ GameIdle

LiveNext ==
    \/ \E level_num \in 1..4 : LiveLoad(level_num)
    \/ LiveUpdate

\* the loop never stops calling update
LiveSpec == Init /\ [][LiveNext]_vars /\ WF_vars(LiveUpdate)

----------------------------------------------------------------------------
(* The ball driven by any caller: intents and integration steps in any     *)
(* order, from any ball state                                              *)

\* calls explored from each ball state
MaxBallSteps == 3

\* where the ball starts, as <<level, x, y>> in pixels: the level's start
\* position, at rest on a platform, falling towards the water of level 2,
\* over the moving platform of level 3
BallPlaces ==
    { <<1, 100, 50>>, <<2, 150, 400>>, <<2, 150, 430>>, <<2, 250, 470>>,
      <<3, 250, 275>> }

\* horizontal speeds around the cap of 12 pixels per frame, in hundredths
BallVelX == {0, 80, 1120, 1199, 1200, 1279, -80, -1200, -1279}

BallVelY == {0, 600, -900}

BallInit ==
    /\ \E place \in BallPlaces, vx \in BallVelX, vy \in BallVelY, ground \in BOOLEAN :
          /\ level_manager = load_level(NewLevelManager, place[1]).lm
          /\ player = [PlayerBall(place[2], place[3], NoFile) EXCEPT
                          !.vel_x = vx, !.vel_y = vy, !.on_ground = ground]
    /\ state = "GAME_PLAY"
    /\ current_level = level_manager.current_level
    /\ score = 0
    /\ lives = 3
    /\ call = [op |-> "__init__", arg |-> 0]
    /\ start_pos = << >>
    /\ in_water = FALSE
    /\ result = "None"
    /\ saved = NoFile
    /\ nsteps = 0

BallIdle ==
    UNCHANGED <<level_manager, state, current_level, score, lives,
                start_pos, result, saved>>

MoveLeft ==
    /\ player' = move_left(player)
    /\ call' = [op |-> "move_left", arg |-> 0]
    /\ nsteps' = nsteps + 1
    /\ UNCHANGED in_water
    /\ BallIdle

MoveRight ==
    /\ player' = move_right(player)
    /\ call' = [op |-> "move_right", arg |-> 0]
    /\ nsteps' = nsteps + 1
    /\ UNCHANGED in_water
    /\ BallIdle

Jump ==
    /\ player' = jump(player)
    /\ call' = [op |-> "jump", arg |-> 0]
    /\ nsteps' = nsteps + 1
    /\ UNCHANGED in_water
    /\ BallIdle

\* player.update(platforms, in_water) with the platforms of the loaded level
Integrate(inWater) ==
    /\ player' = PlayerBall_update(player, Platforms(level_manager), inWater)
    /\ in_water' = inWater
    /\ call' = [op |-> "player_update", arg |-> 0]
    /\ nsteps' = nsteps + 1
    /\ BallIdle

BallNext ==
    \/ nsteps < MaxBallSteps /\ MoveLeft
    \/ nsteps < MaxBallSteps /\ MoveRight
    \/ nsteps < MaxBallSteps /\ Jump
    \/ nsteps < MaxBallSteps /\ \E inWater \in BOOLEAN : Integrate(inWater)

BallSpec == BallInit /\ [][BallNext]_vars

----------------------------------------------------------------------------
(* Integration steps from any ball state: every radius customization.json  *)
(* can give, at the walls, the ceiling and the floor of the screen and on,  *)
(* under and beside platforms                                               *)

\* integration steps explored from each ball state
MaxIntegrations == 3

\* where the ball is, as <<level, x, y>> in pixels: a start position, at
\* rest on a platform, at the left wall, at the right wall, at the ceiling,
\* at the floor in a gap of the ground, under a platform, beside a platform,
\* on the moving platform
StepPlaces ==
    { <<1, 100, 50>>, <<1, 150, 480>>, <<1, 5, 300>>, <<1, 795, 100>>,
      <<1, 350, 5>>, <<1, 350, 595>>, <<1, 300, 435>>, <<2, 95, 460>>,
      <<3, 250, 285>> }

\* customization.json: absent, the smallest and the largest size set_size
\* stores, and a size no set_size call stores
StepFiles ==
    { NoFile, [size |-> 10, bounce_factor |-> 100], [size |-> 50], [size |-> 310] }

StepVelX == {0, 1200, -1200}

StepVelY == {0, 1000, -1500}

StepInit ==
    /\ \E place \in StepPlaces, file \in StepFiles, vx \in StepVelX, vy \in StepVelY,
          ground \in BOOLEAN :
          /\ level_manager = load_level(NewLevelManager, place[1]).lm
          /\ player = [PlayerBall(place[2], place[3], file) EXCEPT
                          !.vel_x = vx, !.vel_y = vy, !.on_ground = ground]
          /\ saved = file
    /\ state = "GAME_PLAY"
    /\ current_level = level_manager.current_level
    /\ score = 0
    /\ lives = 3
    /\ call = [op |-> "__init__", arg |-> 0]
    /\ start_pos = << >>
    /\ in_water = FALSE
    /\ result = "None"
    /\ nsteps = 0

StepNext ==
    nsteps < MaxIntegrations /\ \E inWater \in BOOLEAN : Integrate(inWater)

StepSpec == StepInit /\ [][StepNext]_vars

----------------------------------------------------------------------------
(* check_collision called on any ball around any platform of levels 1 and  *)
(* 2: outside, on and inside each edge and corner                           *)

\* check_collision calls explored from each ball state
MaxCollisionChecks == 2

\* the ball's offset from the platform's left or top edge, for a platform
\* of the given extent: outside, on and inside both edges
EdgeOffsets(extent) == {-15, -5, 0, extent \div 2, extent, extent + 5, extent + 15}

\* customization.json: the default ball, the smallest ball with a full
\* bounce, the largest ball with a weak bounce
CollisionFiles ==
    { NoFile, [size |-> 10, bounce_factor |-> 100], [size |-> 50, bounce_factor |-> 40] }

CollisionVelX == {300, -300}

CollisionVelY == {1000, 0, -500}

CollisionInit ==
    /\ \E level_num \in {1, 2} :
          /\ level_manager = load_level(NewLevelManager, level_num).lm
          /\ \E i \in DOMAIN Platforms(level_manager) :
                LET platform == Platforms(level_manager)[i]
                IN  \E ox \in EdgeOffsets(platform.width), oy \in EdgeOffsets(platform.height),
                       file \in CollisionFiles, vx \in CollisionVelX, vy \in CollisionVelY :
                       /\ player = [PlayerBall(platform.x + ox, platform.y + oy, file)
                                       EXCEPT !.vel_x = vx, !.vel_y = vy]
                       /\ saved = file
                       /\ call = [op |-> "__init__", arg |-> platform]
    /\ state = "GAME_PLAY"
    /\ current_level = level_manager.current_level
    /\ score = 0
    /\ lives = 3
    /\ start_pos = << >>
    /\ in_water = FALSE
    /\ result = "None"
    /\ nsteps = 0

\* self.check_collision(platform)
CheckCollision(platform) ==
    /\ player' = check_collision(player, platform)
    /\ call' = [op |-> "check_collision", arg |-> platform]
    /\ nsteps' = nsteps + 1
    /\ UNCHANGED in_water
    /\ BallIdle

\* the platform the ball was placed around, or any platform of the level
CollisionNext ==
    \/ nsteps < MaxCollisionChecks /\ CheckCollision(call.arg)
    \/ nsteps < MaxCollisionChecks
          /\ \E i \in DOMAIN Platforms(level_manager) :
                CheckCollision(Platforms(level_manager)[i])

CollisionSpec == CollisionInit /\ [][CollisionNext]_vars

----------------------------------------------------------------------------
(* The goal and enemy tests on any ball around the goal or an enemy of a   *)
(* level: beside it, at its corners just inside and just outside the       *)
(* radius, on it                                                            *)

\* tests explored from each ball position
MaxProximityTests == 2

\* customization.json: the default ball, the smallest and the largest ball
\* set_size stores, and the sizes 0 and -5 that only the file can give
ProximityFiles ==
    { NoFile, [size |-> 10], [size |-> 50], [size |-> 0], [size |-> -5] }

\* the ball's offset from the rectangle's left or top edge for a rectangle
\* of the given extent and a ball of radius r: one pixel beyond the radius,
\* at the radius, at 3/4 and 7/10 of it (outside and inside the corner
\* distance when taken on both axes), on the edge, in the middle
ProximityOffsets(extent, r) ==
    { -r - 1, -r, -((3 * r) \div 4), -((7 * r) \div 10), 0, extent \div 2,
      extent + (7 * r) \div 10, extent + (3 * r) \div 4, extent + r, extent + r + 1 }

\* the rectangles of the loaded level the tests look at
Targets(lm) == {Goal(lm)} \cup { Enemies(lm)[i] : i \in DOMAIN Enemies(lm) }

ProximityInit ==
    /\ \E level_num \in 1..3, file \in ProximityFiles :
          /\ level_manager = load_level(NewLevelManager, level_num).lm
          /\ saved = file
          /\ \E target \in Targets(level_manager) :
                LET r == PlayerBall(0, 0, file).customization.size
                IN  \E ox \in ProximityOffsets(target.width, r),
                       oy \in ProximityOffsets(target.height, r) :
                       player = PlayerBall(target.x + ox, target.y + oy, file)
    /\ state = "GAME_PLAY"
    /\ current_level = level_manager.current_level
    /\ score = 0
    /\ lives = 3
    /\ call = [op |-> "__init__", arg |-> 0]
    /\ start_pos = << >>
    /\ in_water = FALSE
    /\ result = "None"
    /\ nsteps = 0

\* self.check_goal_collision(player), the outcome kept as update returns it
TestGoal ==
    /\ result' = IF check_goal_collision(level_manager, player)
                 THEN "level_complete" ELSE "None"
    /\ call' = [op |-> "check_goal_collision", arg |-> 0]
    /\ nsteps' = nsteps + 1
    /\ UNCHANGED <<level_manager, player, state, current_level, score, lives,
                   start_pos, in_water, saved>>

\* self.check_enemy_collision(player), the outcome kept as update returns it
TestEnemy ==
    /\ result' = IF check_enemy_collision(level_manager, player)
                 THEN "player_dead" ELSE "None"
    /\ call' = [op |-> "check_enemy_collision", arg |-> 0]
    /\ nsteps' = nsteps + 1
    /\ UNCHANGED <<level_manager, player, state, current_level, score, lives,
                   start_pos, in_water, saved>>

ProximityNext ==
    \/ nsteps < MaxProximityTests /\ TestGoal
    \/ nsteps < MaxProximityTests /\ TestEnemy

ProximitySpec == ProximityInit /\ [][ProximityNext]_vars

----------------------------------------------------------------------------
(* The ball driven by the arrow keys: a ball created at the start position *)
(* of level 2 with no speed, then any number of move_left and move_right   *)
(* calls between frames                                                    *)

\* calls explored from the new ball
MaxIntentSteps == 6

\* frames played in a row without a key held (the ball dropped at the start
\* position has come to rest on the platform below it by then)
IntentBurst == 40

\* events handled in one frame with the same arrow key held: one move call
\* for each event
IntentEvents == 15

\* move_left (left TRUE) or move_right called n times in a row
RECURSIVE MoveTimes(_, _, _)
MoveTimes(ball, left, n) ==
    IF n = 0 THEN ball
    ELSE CHOOSE last \in { MoveTimes(next, left, n - 1) :
                              next \in {IF left THEN move_left(ball) ELSE move_right(ball)} } : TRUE

\* player.update called n times in a row against the same platforms
RECURSIVE IntegrateTimes(_, _, _)
IntegrateTimes(ball, platforms, n) ==
    IF n = 0 THEN ball
    ELSE CHOOSE last \in { IntegrateTimes(next, platforms, n - 1) :
                              next \in {PlayerBall_update(ball, platforms, FALSE)} } : TRUE

IntentInit ==
    /\ level_manager = load_level(NewLevelManager, 2).lm
    /\ player = PlayerBall(Level2.start_pos[1], Level2.start_pos[2], NoFile)
    /\ state = "GAME_PLAY"
    /\ current_level = 2
    /\ score = 0
    /\ lives = 3
    /\ call = [op |-> "__init__", arg |-> 0]
    /\ start_pos = Level2.start_pos
    /\ in_water = FALSE
    /\ result = "None"
    /\ saved = NoFile
    /\ nsteps = 0

IntegrateBurst ==
    /\ \E r \in {IntegrateTimes(player, Platforms(level_manager), IntentBurst)} :
          player' = r
    /\ in_water' = FALSE
    /\ call' = [op |-> "player_update", arg |-> IntentBurst]
    /\ nsteps' = nsteps + 1
    /\ BallIdle

\* the events of one frame with an arrow key held
MoveHeld(left) ==
    /\ \E r \in {MoveTimes(player, left, IntentEvents)} : player' = r
    /\ call' = [op |-> IF left THEN "move_left" ELSE "move_right", arg |-> IntentEvents]
    /\ nsteps' = nsteps + 1
    /\ UNCHANGED in_water
    /\ BallIdle

IntentNext ==
    \/ nsteps < MaxIntentSteps /\ MoveLeft
    \/ nsteps < MaxIntentSteps /\ MoveRight
    \/ nsteps < MaxIntentSteps /\ \E left \in BOOLEAN : MoveHeld(left)
    \/ nsteps < MaxIntentSteps /\ Integrate(FALSE)
    \/ nsteps < MaxIntentSteps /\ IntegrateBurst

IntentSpec == IntentInit /\ [][IntentNext]_vars

----------------------------------------------------------------------------
(* The game: events and frames in any order *)

\* frames explored from each starting point
MaxFrames == 3

\* events explored from each starting point
MaxEvents == 3

\* the Game object and customization.json as one record
Game ==
    [state |-> state, current_level |-> current_level, score |-> score,
     lives |-> lives, level_manager |-> level_manager, player |-> player,
     saved |-> saved]

SetGame(g) ==
    /\ state' = g.state
    /\ current_level' = g.current_level
    /\ score' = g.score
    /\ lives' = g.lives
    /\ level_manager' = g.level_manager
    /\ player' = g.player
    /\ saved' = g.saved

\* Game.__init__ with customization.json holding file
NewGame(file) ==
    init_game([state |-> "MENU", current_level |-> 1, score |-> 0, lives |-> 3,
               level_manager |-> NewLevelManager,
               player |-> PlayerBall(SCREEN_WIDTH \div 2, 100, file),
               saved |-> file], TRUE)

\* customization.json as the game finds it
SavedFiles == { NoFile, [size |-> 50, bounce_factor |-> 100], [size |-> -110] }

\* load_customization takes the size of the file as it is: a file whose size
\* is far below zero gives a ball that no platform and no screen edge stops
\* before y = SCREEN_HEIGHT + 110
FallsThrough(file) == Get(file, "size", 20) < -100

\* sessions in progress, as <<level, lives, x, y, vel_x, vel_y, on_ground>>
\* (pixels; velocities in hundredths): falling towards the water of level 2,
\* beside the enemy of level 2, at rest on a platform of level 2, above the
\* goal of level 1, over the moving platform of level 3, above the goal of
\* level 3
Sessions ==
    { <<2, 3, 250, 470, 0, 600, FALSE>>,
      <<2, 1, 251, 435, 0, 0, FALSE>>,
      <<2, 3, 150, 430, 0, 0, TRUE>>,
      <<1, 3, 175, 128, 0, 300, FALSE>>,
      <<3, 3, 250, 275, 0, 300, FALSE>>,
      <<3, 2, 700, 103, 0, 300, FALSE>> }

\* a game the player took to level s[1] from the level select screen and
\* played until the ball is at s[3], s[4]
InSession(file, s) ==
    LET selected == handle_level_select_events(
                        [NewGame(file) EXCEPT !.lives = s[2]],
                        IF s[1] = 1 THEN "K_1" ELSE IF s[1] = 2 THEN "K_2" ELSE "K_3")
    IN  [selected EXCEPT !.player.x = Px(s[3]), !.player.y = Px(s[4]),
                         !.player.vel_x = s[5], !.player.vel_y = s[6],
                         !.player.on_ground = s[7]]

\* level 1 taken from the level select screen and the ball left alone for
\* 50 frames: it fell from y = 50 at 0.5 px per frame per frame and nothing
\* stopped it (x, y and the velocities in hundredths)
Falling(file) ==
    LET selected == handle_level_select_events(NewGame(file), "K_1")
    IN  [selected EXCEPT !.player.y = Px(50) + 25 * 50 * 51,
                         !.player.vel_y = 50 * GRAVITY]

\* the games in progress a file may be found in
SessionsOf(file) ==
    IF FallsThrough(file) THEN {Falling(file)}
    ELSE { InSession(file, s) : s \in Sessions }

GameInit ==
    /\ \E file \in SavedFiles :
          \E g \in {NewGame(file)} \cup SessionsOf(file) :
              /\ state = g.state
              /\ current_level = g.current_level
              /\ score = g.score
              /\ lives = g.lives
              /\ level_manager = g.level_manager
              /\ player = g.player
              /\ saved = g.saved
    /\ call = [op |-> "__init__", arg |-> 0]
    /\ start_pos = << >>
    /\ in_water = FALSE
    /\ result = "None"
    /\ nsteps = [frames |-> 0, events |-> 0]

EventStep(key) ==
    /\ nsteps.events < MaxEvents
    /\ nsteps' = [nsteps EXCEPT !.events = @ + 1]
    /\ call' = [op |-> "event", arg |-> key]
    /\ UNCHANGED <<start_pos, in_water, result>>

MenuEvent(key) ==
    /\ state = "MENU"
    /\ SetGame(handle_menu_events(Game, key))
    /\ EventStep(key)

CustomizeEvent(key) ==
    /\ state = "CUSTOMIZE"
    /\ SetGame(handle_customize_events(Game, key))
    /\ EventStep(key)

LevelSelectEvent(key) ==
    /\ state = "LEVEL_SELECT"
    /\ SetGame(handle_level_select_events(Game, key))
    /\ EventStep(key)

GamePlayEvent(key, held) ==
    /\ state = "GAME_PLAY"
    /\ SetGame(handle_game_play_events(Game, key, held))
    /\ EventStep(key)

GameOverEvent(key) ==
    /\ state = "GAME_OVER"
    /\ SetGame(handle_game_over_events(Game, key))
    /\ EventStep(key)

\* Game.update, one frame
GameUpdate ==
    /\ nsteps.frames < MaxFrames
    /\ nsteps' = [nsteps EXCEPT !.frames = @ + 1]
    /\ call' = [op |-> "frame", arg |-> state]
    /\ UNCHANGED start_pos
    /\ IF state = "GAME_PLAY"
       THEN \E frame \in {FrameSteps(level_manager, player)} :
               /\ SetGame(ApplyResult(Game, frame))
               /\ in_water' = frame.in_water
               /\ result' = frame.ret
       ELSE UNCHANGED <<state, current_level, score, lives, level_manager,
                        player, saved, in_water, result>>

\* the keys held down while an event is handled
HeldKeys == { {}, {"K_LEFT"}, {"K_RIGHT"}, {"K_UP"}, {"K_LEFT", "K_RIGHT", "K_UP"} }

GameNext ==
    \/ \E key \in {"K_1", "K_2", "K_3"} : MenuEvent(key)
    \/ \E key \in {"K_ESCAPE", "K_PLUS", "K_MINUS", "K_LEFTBRACKET", "K_RIGHTBRACKET"} :
          CustomizeEvent(key)
    \/ \E key \in {"K_ESCAPE", "K_1", "K_2", "K_3"} : LevelSelectEvent(key)
    \/ \E key \in {"K_ESCAPE", "K_r", "other"}, held \in HeldKeys : GamePlayEvent(key, held)
    \/ GameOverEvent("K_RETURN")
    \/ GameUpdate

GameSpec == GameInit /\ [][GameNext]_vars

----------------------------------------------------------------------------
(* The customize screen: a game started with any customization.json, the   *)
(* size set from the customize screen, then a level played                  *)

\* events and frames explored from the start of the program
MaxCustomizeSteps == 5

\* customization.json as the program finds it: absent, without a size, with
\* a size inside the range of set_size, below it and above it
CustomizationFiles ==
    { NoFile, [bounce_factor |-> 40], [size |-> 25], [size |-> 5], [size |-> 100] }

\* the sizes handed to set_size
SizeInputs == (-3 .. 13) \cup (24 .. 26) \cup (47 .. 53) \cup {100}

CustomizeInit ==
    /\ \E file \in CustomizationFiles :
          \E g \in {NewGame(file)} :
              /\ state = g.state
              /\ current_level = g.current_level
              /\ score = g.score
              /\ lives = g.lives
              /\ level_manager = g.level_manager
              /\ player = g.player
              /\ saved = g.saved
    /\ call = [op |-> "__init__", arg |-> 0]
    /\ start_pos = << >>
    /\ in_water = FALSE
    /\ result = "None"
    /\ nsteps = 0

CustomizeStep(op, arg) ==
    /\ nsteps' = nsteps + 1
    /\ call' = [op |-> op, arg |-> arg]
    /\ UNCHANGED start_pos

\* a key pressed in the menu
MenuKey(key) ==
    /\ state = "MENU"
    /\ SetGame(handle_menu_events(Game, key))
    /\ CustomizeStep("event", key)
    /\ UNCHANGED <<in_water, result>>

\* a key pressed on the customize screen
CustomizeKey(key) ==
    /\ state = "CUSTOMIZE"
    /\ SetGame(handle_customize_events(Game, key))
    /\ CustomizeStep("event", key)
    /\ UNCHANGED <<in_water, result>>

\* self.player.set_size(size), as the size slider calls it
SetSize(size) ==
    /\ state = "CUSTOMIZE"
    /\ SetGame(Saving(Game, set_size(player, size)))
    /\ CustomizeStep("set_size", size)
    /\ UNCHANGED <<in_water, result>>

\* Game.update while a level is played
PlayFrame ==
    /\ state = "GAME_PLAY"
    /\ \E frame \in {FrameSteps(level_manager, player)} :
          /\ SetGame(ApplyResult(Game, frame))
          /\ in_water' = frame.in_water
          /\ result' = frame.ret
    /\ CustomizeStep("frame", state)

CustomizeNext ==
    \/ nsteps < MaxCustomizeSteps /\ \E key \in {"K_1", "K_3"} : MenuKey(key)
    \/ nsteps < MaxCustomizeSteps /\ \E key \in {"K_ESCAPE", "K_PLUS", "K_MINUS"} : CustomizeKey(key)
    \/ nsteps < MaxCustomizeSteps /\ \E size \in SizeInputs : SetSize(size)
    \/ nsteps < MaxCustomizeSteps /\ PlayFrame

CustomizeSpec == CustomizeInit /\ [][CustomizeNext]_vars

----------------------------------------------------------------------------
(* Properties of the level model *)

AllLevels == DOMAIN level_manager.levels

\* the moving platforms and the patrolling enemies of every level
MovingPlatforms ==
    UNION { { level_manager.levels[l].platforms[i] :
                i \in { j \in DOMAIN level_manager.levels[l].platforms :
                          IsMoving(level_manager.levels[l].platforms[j]) } } :
            l \in AllLevels }

PatrolEnemies ==
    UNION { { level_manager.levels[l].enemies[i] :
                i \in { j \in DOMAIN level_manager.levels[l].enemies :
                          "patrol" \in DOMAIN level_manager.levels[l].enemies[j] } } :
            l \in AllLevels }

\* C1: after load_level(id), id in 1..3, the active platforms and enemies
\* are that level's blueprint as first built (moving platforms at their
\* blueprint x and speed, enemies at their blueprint x with no speed set
\* yet) and the level's start position is returned.
C1_LoadLevelRestoresBlueprint ==
    (call.op = "load_level" /\ call.arg \in 1..3) =>
        /\ Platforms(level_manager) = load_levels[call.arg].platforms
        /\ Enemies(level_manager) = load_levels[call.arg].enemies
        /\ start_pos = load_levels[call.arg].start_pos

\* C2: load_level with an id that is no predefined level returns None and
\* leaves the whole level model (current_level, platforms, enemies, goal)
\* as it was.
C2_UnknownLevelChangesNothing ==
    [][ (call'.op = "load_level" /\ call'.arg \notin 1..3) =>
            (level_manager' = level_manager /\ start_pos' = << >>) ]_vars

C2_Witness ==
    /\ call.op = "load_level"
    /\ call.arg = 4
    /\ start_pos = << >>
    /\ level_manager.current_level = 3
    /\ Platforms(level_manager)[7].x = 250

\* C6: every patrolling enemy's x lies within its patrol range and its
\* effective speed (1 when the speed key is absent) is +1 or -1.
C6_EnemyWithinPatrol ==
    \A enemy \in PatrolEnemies :
        /\ enemy.patrol[1] <= enemy.x
        /\ enemy.x <= enemy.patrol[2]
        /\ Get(enemy, "speed", 1) \in {1, -1}

C6_Witness ==
    /\ call.op = "update"
    /\ \E enemy \in PatrolEnemies :
          enemy.x = enemy.patrol[1] /\ "speed" \in DOMAIN enemy /\ enemy.speed = 1
    /\ \E enemy \in PatrolEnemies :
          enemy.x = enemy.patrol[2] /\ "speed" \in DOMAIN enemy /\ enemy.speed = -1

\* C7: every moving platform's x lies within
\* [min(start_x, end_x), max(start_x, end_x)].
C7_PlatformWithinRange ==
    \A platform \in MovingPlatforms :
        /\ Min(platform.start_x, platform.end_x) <= platform.x
        /\ platform.x <= Max(platform.start_x, platform.end_x)

C7_Witness ==
    /\ call.op = "update"
    /\ call.arg = 1
    /\ \E platform \in MovingPlatforms :
          platform.x = platform.start_x /\ platform.speed = 1
    /\ level_manager.current_level = 3
    /\ Enemies(level_manager)[1].x = 398

\* C8 as stated: after any update call, a moving platform of the active
\* level whose x equals end_x has a negative speed, and one whose x equals
\* start_x has a positive speed.
C8_ReversesOnReachingBound ==
    call.op = "update" =>
        \A i \in DOMAIN Platforms(level_manager) :
            LET platform == Platforms(level_manager)[i]
            IN  IsMoving(platform) =>
                  /\ platform.x = platform.end_x => platform.speed < 0
                  /\ platform.x = platform.start_x => platform.speed > 0

\* C8 as amended: a moving platform reverses on the update after the one
\* that brought it to a bound: an update call that starts with the platform
\* on end_x heading outwards (speed > 0) leaves it on end_x with the speed
\* negated, and likewise on start_x with speed < 0.
C8_ReversesOnNextUpdate ==
    [][ (call'.op = "update" /\ call'.arg = 1) =>
          \A i \in DOMAIN Platforms(level_manager) :
              LET before == Platforms(level_manager)[i]
                  after == Platforms(level_manager')[i]
              IN  IsMoving(before) =>
                    /\ (before.x = before.end_x /\ before.speed > 0) =>
                          (after.x = before.end_x /\ after.speed = -before.speed)
                    /\ (before.x = before.start_x /\ before.speed < 0) =>
                          (after.x = before.start_x /\ after.speed = -before.speed) ]_vars

C8_Witness ==
    /\ call.op = "update"
    /\ call.arg = 1
    /\ level_manager.current_level = 3
    /\ Platforms(level_manager)[7].x = Platforms(level_manager)[7].end_x
    /\ Platforms(level_manager)[7].speed = -1

\* C4: update returns level_complete exactly when the ball passes the
\* proximity test with the goal, otherwise player_dead exactly when it
\* passes the test with at least one enemy (as it does at an enemy's own
\* position), otherwise None; a ball touching the goal and an enemy in the
\* same call gives level_complete.
C4_GoalPriority ==
    call.op = "update" =>
        /\ result = "level_complete" <=> check_goal_collision(level_manager, player)
        /\ result = "player_dead" <=>
              (~check_goal_collision(level_manager, player)
               /\ check_enemy_collision(level_manager, player))
        /\ result = "None" <=>
              (~check_goal_collision(level_manager, player)
               /\ ~check_enemy_collision(level_manager, player))
        /\ (\E i \in DOMAIN Enemies(level_manager) :
               /\ Abs(player.x - Px(Enemies(level_manager)[i].x)) <= Px(1)
               /\ player.y = Px(Enemies(level_manager)[i].y)) => result # "None"

C4_Witness ==
    /\ call.op = "update"
    /\ result = "level_complete"
    /\ check_goal_collision(level_manager, player)
    /\ check_enemy_collision(level_manager, player)

----------------------------------------------------------------------------
(* Properties of the ball *)

\* C9: move_left and move_right leave x, y, vel_y and on_ground unchanged,
\* and change vel_x by exactly -acceleration (left) or +acceleration (right)
\* when |vel_x| < max_vel_x.
C9_MoveChangesOnlyVelX ==
    [][ call'.op \in {"move_left", "move_right"} =>
          /\ player'.x = player.x
          /\ player'.y = player.y
          /\ player'.vel_y = player.vel_y
          /\ player'.on_ground = player.on_ground
          /\ Abs(player.vel_x) < Px(max_vel_x) =>
                player'.vel_x = IF call'.op = "move_left"
                                THEN player.vel_x - acceleration
                                ELSE player.vel_x + acceleration ]_vars

\* C10: jump called with on_ground true sets vel_y to -15 and on_ground to
\* false; called with on_ground false it changes nothing; and on_ground
\* becomes true only in an integration step, so a second jump with no such
\* step in between changes nothing.
C10_JumpOnlyOnGround ==
    [][ /\ call'.op = "jump" =>
             IF player.on_ground
             THEN player' = [player EXCEPT !.vel_y = -Px(15), !.on_ground = FALSE]
             ELSE player' = player
        /\ (call.op = "jump" /\ call'.op = "jump") => player' = player
        /\ (~player.on_ground /\ player'.on_ground) => call'.op = "player_update" ]_vars

C10_Witness ==
    /\ call.op = "jump"
    /\ player.vel_y = -Px(15)
    /\ ~player.on_ground

----------------------------------------------------------------------------
(* Properties of the frame *)

\* the platforms that are not water
NotWater(platform) == ~IsWater(platform)

\* a frame of gameplay that ends with the same ball still in play
FramePlayedOn ==
    /\ call'.op = "frame"
    /\ state = "GAME_PLAY"
    /\ result' = "None"
    /\ lives' = lives

\* C3: in a gameplay frame the integration step leaves the ball where
\* integration against the platforms that are not water leaves it: a
\* water platform changes neither position, velocity nor on_ground.
C3_WaterNotResolved ==
    [][ FramePlayedOn =>
          player' = PlayerBall_update(player,
                        SelectSeq(Platforms(level_manager), NotWater), in_water') ]_vars

\* C5: a gameplay frame (a) computes the immersion flag from the ball as
\* the previous frame left it, (b) integrates the ball against the
\* platforms as the previous frame left them, (c) advances the moving
\* platforms and the enemies, (d) evaluates goal and enemy contact on the
\* integrated ball and the advanced enemies.
C5_FrameOrder ==
    [][ (call'.op = "frame" /\ state = "GAME_PLAY") =>
          LET integrated == PlayerBall_update(player, Platforms(level_manager),
                                              Immersed(player, level_manager))
              advanced == UpdateDynamics(level_manager)
          IN  /\ in_water' = Immersed(player, level_manager)
              /\ result' = IF check_goal_collision(advanced, integrated)
                           THEN "level_complete"
                           ELSE IF check_enemy_collision(advanced, integrated)
                           THEN "player_dead"
                           ELSE "None"
              /\ FramePlayedOn => (player' = integrated /\ level_manager' = advanced) ]_vars

\* a frame that used the immersion of the ball it started with: the flag is
\* set although the ball the frame leaves is out of the water
C5_Witness ==
    /\ call.op = "frame"
    /\ state = "GAME_PLAY"
    /\ result = "None"
    /\ in_water
    /\ ~Immersed(player, level_manager)
    /\ nsteps.frames = 3

----------------------------------------------------------------------------
(* Properties of the ball driven by the arrow keys *)

\* C11: starting from vel_x = 0, after any sequence of move_left, move_right
\* and update calls, |vel_x| < max_vel_x + acceleration.
C11_SpeedBounded ==
    Abs(player.vel_x) < Px(max_vel_x) + acceleration

\* a move that took the ball above max_vel_x
C11_Witness ==
    /\ call.op \in {"move_left", "move_right"}
    /\ Abs(player.vel_x) > Px(max_vel_x)

----------------------------------------------------------------------------
(* Properties of the ball's size *)

C13_SizeWithinRange ==
    /\ player.customization.size >= 10
    /\ player.customization.size <= 50

----------------------------------------------------------------------------
(* Properties of the integration step *)

\* C14: after every integration step the ball is inside the screen:
\* radius <= x <= SCREEN_WIDTH - radius and radius <= y <= SCREEN_HEIGHT - radius.
C14_InsideScreen ==
    call.op = "player_update" =>
        /\ Px(player.customization.size) <= player.x
        /\ player.x <= Px(SCREEN_WIDTH) - Px(player.customization.size)
        /\ Px(player.customization.size) <= player.y
        /\ player.y <= Px(SCREEN_HEIGHT) - Px(player.customization.size)

\* some check_collision call of the platform loop, from platform i on,
\* resolves as a top-side hit
RECURSIVE AnyTopHit(_, _, _)
AnyTopHit(ball, platforms, i) ==
    IF i > Len(platforms) THEN FALSE
    ELSE \/ Collides(ball, platforms[i]) /\ Side(ball, platforms[i]) = "top"
         \/ AnyTopHit(check_collision(ball, platforms[i]), platforms, i + 1)

\* the bottom screen bound applies to the ball the platform loop leaves
BottomBoundApplies(ball) ==
    /\ ~(ball.y < Px(ball.customization.size))
    /\ ball.y > Px(SCREEN_HEIGHT) - Px(ball.customization.size)

\* C15: on_ground is true at the end of an integration step only if, in
\* that step, some platform collision resolved as a top-side hit or the
\* bottom screen bound was applied.
C15_GroundOnlyFromContact ==
    [][ (call'.op = "player_update" /\ player'.on_ground) =>
          \/ AnyTopHit(Moved(player, in_water'), Platforms(level_manager), 1)
          \/ BottomBoundApplies(CollideAll(Moved(player, in_water'),
                                            Platforms(level_manager), 1)) ]_vars

\* a step that left the ball on top of the ground platform of level 1
C15_Witness ==
    /\ call.op = "player_update"
    /\ current_level = 1
    /\ player.on_ground
    /\ player.customization.size = 20
    /\ player.y = Px(500) - Px(20)

----------------------------------------------------------------------------
(* Properties of check_collision *)

\* C16: when check_collision resolves a collision as a top-side hit, vel_y
\* becomes -bounce_factor times the incoming vel_y (to the hundredth of a
\* pixel per frame velocities are kept to), y becomes platform.y - radius
\* and on_ground becomes true.
C16_BounceLaw ==
    [][ (/\ call'.op = "check_collision"
         /\ Collides(player, call'.arg)
         /\ Side(player, call'.arg) = "top") =>
          /\ Abs(100 * player'.vel_y + player.customization.bounce_factor * player.vel_y) < 100
          /\ player.vel_y > 0 => player'.vel_y <= 0
          /\ player.vel_y < 0 => player'.vel_y >= 0
          /\ player'.y = Px(call'.arg.y) - Px(player.customization.size)
          /\ player'.on_ground ]_vars

\* bounce_factor 0.7 and incoming vel_y 10 have given vel_y -7
C16_Witness ==
    /\ call.op = "check_collision"
    /\ nsteps = 1
    /\ player.customization.bounce_factor = 70
    /\ player.vel_y = -Px(7)
    /\ player.on_ground
    /\ player.y = Px(call.arg.y) - Px(player.customization.size)

\* the ball's center is at least a radius away from the closest point of
\* the platform (the squares taken only when both offsets are within the
\* radius)
NoPenetration(ball, platform) ==
    LET radius == Px(ball.customization.size)
        closest_x == Max(Px(platform.x), Min(ball.x, Px(platform.x) + Px(platform.width)))
        closest_y == Max(Px(platform.y), Min(ball.y, Px(platform.y) + Px(platform.height)))
        ox == Abs(ball.x - closest_x)
        oy == Abs(ball.y - closest_y)
    IN  \/ ox >= radius
        \/ oy >= radius
        \/ ox * ox + oy * oy >= radius * radius

\* C17: whenever check_collision detects a collision with a platform, the
\* ball it leaves is at least a radius away from that platform's closest
\* point.
C17_NoResidualPenetration ==
    [][ (call'.op = "check_collision" /\ Collides(player, call'.arg)) =>
          NoPenetration(player', call'.arg) ]_vars

\* a ball whose center was inside the platform has been put beside it
C17_Witness ==
    /\ call.op = "check_collision"
    /\ nsteps = 1
    /\ player.x = Px(call.arg.x) + Px(call.arg.width) + Px(player.customization.size)
    /\ player.y > Px(call.arg.y)
    /\ player.y < Px(call.arg.y) + Px(call.arg.height)
    /\ player.vel_x = 150

----------------------------------------------------------------------------
(* Properties of the goal and enemy tests *)

\* the vectors the ball and the rectangles are moved by, in pixels
Vectors == { <<7, 0>>, <<0, -13>>, <<-100, 250>> }

\* the level with its goal and its enemies moved by v
Translated(lm, v) ==
    LET level == lm.levels[lm.current_level]
        enemies == [i \in DOMAIN level.enemies |->
                       [level.enemies[i] EXCEPT !.x = @ + v[1], !.y = @ + v[2]]]
        goal == [level.goal EXCEPT !.x = @ + v[1], !.y = @ + v[2]]
    IN  [lm EXCEPT !.levels[lm.current_level] =
                       [level EXCEPT !.goal = goal, !.enemies = enemies]]

\* the ball moved by v
TranslatedBall(ball, v) == [ball EXCEPT !.x = @ + Px(v[1]), !.y = @ + Px(v[2])]

\* C18: the goal test and the enemy test give the same answer when the
\* ball and the rectangle are moved by the same vector.
C18_TranslationInvariant ==
    /\ call.op = "check_goal_collision" =>
          \A v \in Vectors :
              (result = "level_complete")
                  = check_goal_collision(Translated(level_manager, v), TranslatedBall(player, v))
    /\ call.op = "check_enemy_collision" =>
          \A v \in Vectors :
              (result = "player_dead")
                  = check_enemy_collision(Translated(level_manager, v), TranslatedBall(player, v))

\* the goal test has passed for a ball off the goal's corner, as it does
\* after moving both
C18_Witness ==
    /\ call.op = "check_goal_collision"
    /\ result = "level_complete"
    /\ player.x < Px(Goal(level_manager).x)
    /\ player.y < Px(Goal(level_manager).y)
    /\ \A v \in Vectors :
          check_goal_collision(Translated(level_manager, v), TranslatedBall(player, v))

\* the outcome of the last test is that of the closest-point test of
\* check_collision on the same rectangles
SameAsClosestPoint ==
    /\ call.op = "check_goal_collision" =>
          (result = "level_complete") = Collides(player, Goal(level_manager))
    /\ call.op = "check_enemy_collision" =>
          (result = "player_dead")
              = (\E i \in DOMAIN Enemies(level_manager) :
                    Collides(player, Enemies(level_manager)[i]))

----------------------------------------------------------------------------
(* Properties of a ball on the goal *)

\* the ball's center is on or inside the goal rectangle
OnGoal(lm, ball) ==
    /\ HasGoal(lm)
    /\ Px(Goal(lm).x) <= ball.x
    /\ ball.x <= Px(Goal(lm).x) + Px(Goal(lm).width)
    /\ Px(Goal(lm).y) <= ball.y
    /\ ball.y <= Px(Goal(lm).y) + Px(Goal(lm).height)

\* C20: with any level loaded, update returns level_complete for a ball
\* whose center is at the goal's (x, y) or anywhere on or inside the goal
\* rectangle, for every radius from 10 to 50.
C20_OnGoalCompletes ==
    (/\ call.op = "update"
     /\ OnGoal(level_manager, player)
     /\ player.customization.size >= 10
     /\ player.customization.size <= 50) => result = "level_complete"

\* level 1, ball at (150, 150), size 20
C20_Witness ==
    /\ call.op = "update"
    /\ level_manager.current_level = 1
    /\ player.x = Px(150)
    /\ player.y = Px(150)
    /\ player.customization.size = 20
    /\ result = "level_complete"

----------------------------------------------------------------------------
(* Properties of immersion *)

\* some water platform of the level has the ball's x within its width and
\* the ball's bottom edge within its height, bounds included
BottomEdgeInWater(ball, lm) ==
    \E i \in DOMAIN Platforms(lm) :
        LET platform == Platforms(lm)[i]
            bottom == ball.y + Px(ball.customization.size)
        IN  /\ "type" \in DOMAIN platform
            /\ platform.type = "water"
            /\ ball.x >= Px(platform.x)
            /\ ball.x <= Px(platform.x + platform.width)
            /\ bottom >= Px(platform.y)
            /\ bottom <= Px(platform.y + platform.height)

\* C21: the immersion flag of a frame is true exactly when some water
\* platform has platform.x <= ball.x <= platform.x + width and
\* platform.y <= ball.y + radius <= platform.y + height, bounds included;
\* the integration step of that frame adds GRAVITY/2 to vel_y when the flag
\* is true and GRAVITY otherwise, frame by frame: the frame leaves the ball
\* that a frame under full gravity leaves when vel_y starts lower by the
\* difference.
C21_ImmersionHalvesGravity ==
    [][ (call'.op = "frame" /\ state = "GAME_PLAY") =>
          LET added == IF in_water' THEN GRAVITY \div 2 ELSE GRAVITY
          IN  /\ in_water' = BottomEdgeInWater(player, level_manager)
              /\ FramePlayedOn =>
                    player' = PlayerBall_update(
                                  [player EXCEPT !.vel_y = @ + added - GRAVITY],
                                  Platforms(level_manager), FALSE) ]_vars

\* a frame that began with the ball's bottom edge exactly on the water's
\* top edge, rising at 4.9: the flag is set and vel_y is up by GRAVITY/2
C21_Witness ==
    /\ call.op = "frame"
    /\ state = "GAME_PLAY"
    /\ current_level = 2
    /\ in_water
    /\ player.customization.size = 20
    /\ player.vel_y = -490 + GRAVITY \div 2
    /\ player.y = Px(500) - Px(20) + player.vel_y

----------------------------------------------------------------------------
(* Properties of the level model towards the ball *)

\* C22: LevelManager.update, with its goal and enemy tests, leaves the
\* ball's x, y, vel_x, vel_y, on_ground and customization unchanged whatever
\* it returns: unless the frame ends by building a new ball, the ball after
\* the frame is the ball the integration step left.
C22_LevelLeavesBall ==
    [][ (/\ call'.op = "frame"
         /\ state = "GAME_PLAY"
         /\ ((result' = "None" /\ lives' = lives) \/ state' = "GAME_OVER")) =>
          player' = PlayerBall_update(player, Platforms(level_manager), in_water') ]_vars

\* a frame in which update returned player_dead and no new ball was built
C22_Witness ==
    /\ call.op = "frame"
    /\ result = "player_dead"
    /\ state = "GAME_OVER"
    /\ check_enemy_collision(level_manager, player)

----------------------------------------------------------------------------
(* Oscillation *)

\* update is called with level level_num loaded
UpdateAt(level_num) ==
    LiveUpdate /\ level_manager.current_level = level_num

\* every moving platform of the level is at start_x / at end_x
PlatformsAtStart(level_num) ==
    \A i \in DOMAIN level_manager.levels[level_num].platforms :
        LET platform == level_manager.levels[level_num].platforms[i]
        IN  IsMoving(platform) => platform.x = platform.start_x

PlatformsAtEnd(level_num) ==
    \A i \in DOMAIN level_manager.levels[level_num].platforms :
        LET platform == level_manager.levels[level_num].platforms[i]
        IN  IsMoving(platform) => platform.x = platform.end_x

\* every patrolling enemy of the level is at patrol_low / at patrol_high
EnemiesAtLow(level_num) ==
    \A i \in DOMAIN level_manager.levels[level_num].enemies :
        LET enemy == level_manager.levels[level_num].enemies[i]
        IN  "patrol" \in DOMAIN enemy => enemy.x = enemy.patrol[1]

EnemiesAtHigh(level_num) ==
    \A i \in DOMAIN level_manager.levels[level_num].enemies :
        LET enemy == level_manager.levels[level_num].enemies[i]
        IN  "patrol" \in DOMAIN enemy => enemy.x = enemy.patrol[2]

----------------------------------------------------------------------------
(* Properties of the platform pass *)

\* check_collision applied for the first n platforms of the list, one after
\* the other: the n-th call works on what the first n - 1 calls left
RECURSIVE AfterPlatforms(_, _, _)
AfterPlatforms(ball, platforms, n) ==
    IF n = 0 THEN ball
    ELSE check_collision(AfterPlatforms(ball, platforms, n - 1), platforms[n])

\* the same calls made from the last platform of the list to the first
RECURSIVE AfterPlatformsReversed(_, _, _)
AfterPlatformsReversed(ball, platforms, n) ==
    IF n > Len(platforms) THEN ball
    ELSE check_collision(AfterPlatformsReversed(ball, platforms, n + 1), platforms[n])

\* C24: in an integration step every platform of the list is tested, in the
\* order of the list, each test on the ball as the earlier platforms left
\* it: the ball after the step is the screen bounds applied to the
\* left-to-right sequence of check_collision calls over the whole list.
C24_SequentialFold ==
    [][ call'.op = "player_update" =>
          player' = ScreenBounds(AfterPlatforms(Moved(player, in_water'),
                                                Platforms(level_manager),
                                                Len(Platforms(level_manager)))) ]_vars

\* a ball left by a step whose next step depends on the order and on the
\* absence of an early exit: the list taken backwards, and the list left at
\* the first hit, both give another ball
C24_Witness ==
    /\ call.op = "player_update"
    /\ nsteps < MaxIntegrations
    /\ player.customization.size <= 50
    /\ LET moved == Moved(player, FALSE)
           platforms == Platforms(level_manager)
           inOrder == AfterPlatforms(moved, platforms, Len(platforms))
       IN  /\ inOrder # AfterPlatformsReversed(moved, platforms, 1)
           /\ inOrder # CollideAll_EarlyExit(moved, platforms, 1)

----------------------------------------------------------------------------
(* Properties of the fall below the screen *)

----------------------------------------------------------------------------
(* Properties of the lives counter *)

\* C26: in every state of the game lives is within 0..3, and the game is in
\* GAME_PLAY only with at least one life left.
C26_LivesInRange ==
    /\ lives \in 0..3
    /\ state = "GAME_PLAY" => lives > 0

----------------------------------------------------------------------------
(* Properties of the end of a frame *)

\* a frame of gameplay in which level_manager.update returns outcome
FrameWith(outcome) ==
    /\ call'.op = "frame"
    /\ state = "GAME_PLAY"
    /\ result' = outcome

\* lm has level k loaded
LevelLoaded(lm, k) ==
    /\ lm.current_level = k
    /\ lm.platforms = k
    /\ lm.enemies = k
    /\ lm.goal = k

\* ball is a ball just built at the start position of level k
NewBallAt(ball, lm, k) ==
    /\ ball.x = Px(lm.levels[k].start_pos[1])
    /\ ball.y = Px(lm.levels[k].start_pos[2])
    /\ ball.vel_x = 0
    /\ ball.vel_y = 0
    /\ ~ball.on_ground

\* C27: a gameplay frame whose outcome is player_dead takes exactly one
\* life and leaves the score; with a life left the current level is loaded
\* again, a new ball stands at its start position with zero velocity and the
\* game stays in GAME_PLAY; with none left the game goes to GAME_OVER.
C27_DeathHandling ==
    [][ FrameWith("player_dead") =>
          /\ lives' = lives - 1
          /\ score' = score
          /\ current_level' = current_level
          /\ IF lives' > 0
             THEN /\ state' = "GAME_PLAY"
                  /\ LevelLoaded(level_manager', current_level)
                  /\ NewBallAt(player', level_manager', current_level)
             ELSE state' = "GAME_OVER" ]_vars

\* a death that left lives: level 2 goes on with a new ball
C27_Witness ==
    /\ call.op = "frame"
    /\ result = "player_dead"
    /\ state = "GAME_PLAY"
    /\ lives > 0
    /\ NewBallAt(player, level_manager, current_level)

\* C28: a gameplay frame whose outcome is level_complete at level k adds
\* exactly 100 * k to the score and leaves lives; for k < 3 level k + 1 is
\* loaded, a new ball stands at its start position and the game stays in
\* GAME_PLAY; for k = 3 the game goes to GAME_OVER and current_level stays
\* 3.  current_level is always one of 1, 2, 3.
C28_LevelCompletion ==
    /\ [][ FrameWith("level_complete") =>
              /\ score' = score + 100 * current_level
              /\ lives' = lives
              /\ IF current_level < 3
                 THEN /\ current_level' = current_level + 1
                      /\ state' = "GAME_PLAY"
                      /\ LevelLoaded(level_manager', current_level + 1)
                      /\ NewBallAt(player', level_manager', current_level + 1)
                 ELSE /\ current_level' = 3
                      /\ state' = "GAME_OVER" ]_vars
    /\ [](current_level \in 1..3)

\* level 1 completed: level 2 is in play with the 100 points of level 1
C28_Witness ==
    /\ call.op = "frame"
    /\ result = "level_complete"
    /\ state = "GAME_PLAY"
    /\ current_level = 2
    /\ score = 100
    /\ NewBallAt(player, level_manager, 2)

----------------------------------------------------------------------------
(* Properties of the speed guard *)

\* check_collision resolves one of the platforms on its left or right side
SideHits(ball, platforms) ==
    \E n \in 1..Len(platforms) :
        LET before == AfterPlatforms(ball, platforms, n - 1)
        IN  /\ Collides(before, platforms[n])
            /\ Side(before, platforms[n]) \in {"left", "right"}

\* update: the ball is beyond the left or the right edge of the screen
AtScreenSide(ball) ==
    \/ ball.x < Px(ball.customization.size)
    \/ ball.x > Px(SCREEN_WIDTH) - Px(ball.customization.size)

\* an integration step of ball in which it touches no wall
TouchesNoWall(ball, platforms, inWater) ==
    LET moved == Moved(ball, inWater)
    IN  /\ ~SideHits(moved, platforms)
        /\ ~AtScreenSide(AfterPlatforms(moved, platforms, Len(platforms)))

\* C29: with |vel_x| >= max_vel_x neither move_left nor move_right changes
\* vel_x, the one that would slow the ball included, and an integration
\* step of a ball that is off the ground and touches no wall keeps vel_x:
\* such a ball keeps its speed whatever intents are issued.
C29_CapBlocksBothWays ==
    [][ Abs(player.vel_x) >= Px(max_vel_x) =>
          /\ call'.op \in {"move_left", "move_right", "jump"} =>
                player'.vel_x = player.vel_x
          /\ (/\ call'.op = "player_update"
              /\ ~player.on_ground
              /\ TouchesNoWall(player, Platforms(level_manager), in_water')) =>
                player'.vel_x = player.vel_x ]_vars

\* the ball dropped at the start of level 1 going left above the cap, two
\* frames and one intent later: still at that speed
C29_Witness ==
    /\ call.op = "player_update"
    /\ nsteps = 3
    /\ current_level = 1
    /\ player.vel_x = -1279
    /\ player.x = Px(100) - 2 * 1279

----------------------------------------------------------------------------
(* Properties of the side a collision is resolved on *)

\* the ball's centre is strictly inside the platform's rectangle
CentreInside(ball, platform) ==
    /\ Px(platform.x) < ball.x
    /\ ball.x < Px(platform.x) + Px(platform.width)
    /\ Px(platform.y) < ball.y
    /\ ball.y < Px(platform.y) + Px(platform.height)

\* C30: a colliding ball is resolved on top if its centre y is at or above
\* platform.y, else below if its centre y is at or below platform.y +
\* height, else on the left if its centre x is at or left of platform.x, and
\* on the right otherwise: a ball whose centre is strictly inside the
\* rectangle is moved to x = platform.x + width + radius with vel_x
\* multiplied by -0.5.
C30_SideByCentre ==
    [][ (call'.op = "check_collision" /\ Collides(player, call'.arg)) =>
          LET platform == call'.arg
              radius == Px(player.customization.size)
          IN  /\ player' =
                   IF player.y <= Px(platform.y)
                   THEN [player EXCEPT !.y = Px(platform.y) - radius,
                                       !.vel_y = Scaled(-player.vel_y,
                                                        player.customization.bounce_factor),
                                       !.on_ground = TRUE]
                   ELSE IF player.y >= Px(platform.y) + Px(platform.height)
                   THEN [player EXCEPT !.y = Px(platform.y) + Px(platform.height) + radius,
                                       !.vel_y = Scaled(-player.vel_y, 50)]
                   ELSE IF player.x <= Px(platform.x)
                   THEN [player EXCEPT !.x = Px(platform.x) - radius,
                                       !.vel_x = Scaled(player.vel_x, -50)]
                   ELSE [player EXCEPT !.x = Px(platform.x) + Px(platform.width) + radius,
                                       !.vel_x = Scaled(player.vel_x, -50)]
              /\ CentreInside(player, platform) =>
                    /\ player'.x = Px(platform.x) + Px(platform.width) + radius
                    /\ player'.vel_x = Scaled(player.vel_x, -50) ]_vars

\* a ball that went right at 3 px per frame, put out on the right of the
\* 800 px wide ground of level 2 at the height of the ground's middle
C30_Witness ==
    /\ call.op = "check_collision"
    /\ call.arg = Level2.platforms[1]
    /\ nsteps = 1
    /\ player.x = Px(800) + Px(player.customization.size)
    /\ player.y = Px(575)
    /\ player.vel_x = -150

====
